---------------------------- MODULE Spec2Model ----------------------------
(***************************************************************************)
(* Model of the persisted-store variant of InsightAgent:                   *)
(*   backend/app/services/vector_store.py   (VectorStore)                  *)
(*   backend/app/services/embedding_service.py (EmbeddingService)          *)
(*   backend/app/routes/documents.py, query.py, main.py (the callers)      *)
(*                                                                         *)
(* Texts are sequences of one-character strings.  Vectors are integer      *)
(* tuples in fixed point: 5 stands for 1.0, so a unit vector has norm 5.   *)
(***************************************************************************)
EXTENDS Integers, Sequences, FiniteSets, TLC

\* ------------------------------------------------------------------ bounds

\* Number of document ids uuid4 can hand out in one behaviour.
MaxDocs == 2

\* Stands for settings.embedding_dimension (1536 in config.py).
Dimension == 2

\* Number of injected failures (a provider call or index.add raising, a write
\* of save() stopping, a crash of the process) in one behaviour.
MaxFaults == 1

\* Number of requests in flight on the event loop in one behaviour.
MaxReqs == 2

\* Most candidates handed to generate_answer, and most citation references
\* in one generator output.
MaxCandidates == 4

MaxRefs == 2

\* settings.chunk_size and settings.chunk_overlap (512 and 50 by default),
\* scaled down: texts here are a few characters long.
chunk_size == 8

chunk_overlap == 3

\* Most sentences on one page, and most pages in one PDF.
MaxSentences == 3

MaxPages == 3

\* Texts in one embed_texts call.
MaxTexts == 3

\* ------------------------------------------------------- program constants

MAX_TEXT_LENGTH == 25000

BATCH_SIZE == 100

top_k_rerank == 5

\* llm_service.py: chunk.text[:200], chunks[:3], ref.get("source_number", 1)
EXCERPT_CHARS == 200

FALLBACK_CITATIONS == 3

DEFAULT_SOURCE_NUMBER == 1

\* words[-10:]: the words the serverless chunker carries over
OVERLAP_WORDS == 10

\* Confidence is in tenths: 10 stands for 1, and the default 0.5 is 5.
CONFIDENCE_ONE == 10

DEFAULT_CONFIDENCE == 5

\* ----------------------------------------------------------------- helpers

Min(a, b) == IF a <= b THEN a ELSE b

RECURSIVE SelectSeq2Reversed(_, _)
\* SelectSeq2 with the kept elements in the opposite order.
SelectSeq2Reversed(s, d) ==
    IF s = <<>> THEN <<>>
    ELSE IF Head(s).document_id # d
         THEN SelectSeq2Reversed(Tail(s), d) \o <<Head(s)>>
         ELSE SelectSeq2Reversed(Tail(s), d)

RECURSIVE SelectSeq2(_, _)
\* [x for x in s if x.document_id != d]
SelectSeq2(s, d) ==
    IF s = <<>> THEN <<>>
    ELSE IF Head(s).document_id # d
         THEN <<Head(s)>> \o SelectSeq2(Tail(s), d)
         ELSE SelectSeq2(Tail(s), d)

\* MaxPage taking the first chunk's page instead of the largest.
FirstPage(cs) == cs[1].page_number

RECURSIVE MaxPage(_)
\* max(c.page_number for c in chunks), chunks non-empty
MaxPage(cs) ==
    IF Len(cs) = 1 THEN cs[1].page_number
    ELSE LET m == MaxPage(Tail(cs))
         IN  IF cs[1].page_number >= m THEN cs[1].page_number ELSE m

\* ------------------------------------------------------------------- texts

\* "NUL" stands for a control character below ' ' other than \n and \t.
Whitespace == {" ", "NL"}

IsControl(c) == c = "NUL"

RECURSIVE DropControl(_)
\* ''.join(char for char in text if char >= ' ' or char in '\n\t')
DropControl(t) ==
    IF t = <<>> THEN <<>>
    ELSE IF IsControl(Head(t)) THEN DropControl(Tail(t))
         ELSE <<Head(t)>> \o DropControl(Tail(t))

RECURSIVE CollapseWs(_)
\* re.sub(r'\s+', ' ', text)
CollapseWs(t) ==
    IF t = <<>> THEN <<>>
    ELSE IF Head(t) \in Whitespace
         THEN IF Len(t) > 1 /\ t[2] \in Whitespace
              THEN CollapseWs(Tail(t))
              ELSE <<" ">> \o CollapseWs(Tail(t))
         ELSE <<Head(t)>> \o CollapseWs(Tail(t))

\* text.strip(), applied to a text whose whitespace runs are single spaces
Strip(t) ==
    LET a == IF t # <<>> /\ Head(t) \in Whitespace THEN Tail(t) ELSE t
    IN  IF a # <<>> /\ a[Len(a)] \in Whitespace
        THEN SubSeq(a, 1, Len(a) - 1) ELSE a

\* EmbeddingService._sanitize_text
SanitizeText(t) ==
    IF t = <<>> THEN <<>>
    ELSE LET s == Strip(CollapseWs(DropControl(t)))
         IN  IF Len(s) > MAX_TEXT_LENGTH THEN SubSeq(s, 1, MAX_TEXT_LENGTH) ELSE s

\* -------------------------------------------------------------- embeddings

RECURSIVE ISqrtFrom(_, _)
ISqrtFrom(n, r) == IF (r + 1) * (r + 1) > n THEN r ELSE ISqrtFrom(n, r + 1)

Dot(u, v) ==
    LET RECURSIVE Sum(_)
        Sum(i) == IF i = 0 THEN 0 ELSE u[i] * v[i] + Sum(i - 1)
    IN  Sum(Len(u))

\* np.linalg.norm
Norm(v) == ISqrtFrom(Dot(v, v), 0)

ZeroVector == [i \in 1..Dimension |-> 0]

\* emb_array / norm when norm > 0 (fixed point, 5 = 1.0)
Normalize(v) ==
    LET n == Norm(v)
    IN  IF n > 0 THEN [i \in 1..Len(v) |-> (v[i] * 5) \div n] ELSE v

\* The provider's answer for one text (client.embeddings.create): an
\* unnormalised vector, a fixed function of the text it is sent.
ProviderEmbedding(t) ==
    LET raw == IF t = <<"a">> THEN <<6, 8>>
               ELSE IF t = <<"b">> THEN <<16, 12>>
               ELSE IF t = <<"a", " ", "b">> THEN <<0, 10>>
               ELSE <<10, 0>>
    IN  [i \in 1..Dimension |-> IF i <= 2 THEN raw[i] ELSE 0]

RECURSIVE EmbedBatches(_, _)
\* the batch loop of embed_texts: all_embeddings over range(0, len, BATCH_SIZE)
EmbedBatches(valid_texts, i) ==
    IF i > Len(valid_texts) THEN <<>>
    ELSE LET batch == SubSeq(valid_texts, i, Min(i + BATCH_SIZE - 1, Len(valid_texts)))
         IN  [j \in 1..Len(batch) |-> ProviderEmbedding(batch[j])]
               \o EmbedBatches(valid_texts, i + BATCH_SIZE)

RECURSIVE ValidIndices(_, _)
\* [i for i, t in enumerate(sanitized) if t]
ValidIndices(sanitized, i) ==
    IF i > Len(sanitized) THEN <<>>
    ELSE IF sanitized[i] # <<>>
         THEN <<i>> \o ValidIndices(sanitized, i + 1)
         ELSE ValidIndices(sanitized, i + 1)

\* Whether embed_texts reaches the provider at all.
CallsProvider(texts) ==
    \E i \in 1..Len(texts) : SanitizeText(texts[i]) # <<>>

\* EmbeddingService.embed_texts, when the provider answers
EmbedTexts(texts) ==
    LET sanitized      == [i \in 1..Len(texts) |-> SanitizeText(texts[i])]
        valid_indices  == ValidIndices(sanitized, 1)
        valid_texts    == [j \in 1..Len(valid_indices) |-> sanitized[valid_indices[j]]]
        all_embeddings == EmbedBatches(valid_texts, 1)
    IN  [i \in 1..Len(texts) |->
            IF \E j \in 1..Len(valid_indices) : valid_indices[j] = i
            THEN Normalize(all_embeddings[CHOOSE j \in 1..Len(valid_indices) :
                                              valid_indices[j] = i])
            ELSE ZeroVector]

\* EmbeddingService.embed_text / embed_query, when the provider answers
EmbedText(text) ==
    LET t == SanitizeText(text)
    IN  IF t = <<>> THEN ZeroVector ELSE Normalize(ProviderEmbedding(t))

\* --------------------------------------------------------------- the state

VARIABLES
    index,      \* self.index: the vectors of the FAISS index, in order
    chunks,     \* self.chunks: list[ChunkMetadata]
    documents,  \* self.documents: dict[str, DocumentInfo]
    fIndex,     \* the file index.faiss
    fChunks,    \* the file chunks.json
    fDocs,      \* the file documents.json
    nextId,     \* the next document id uuid4 hands out
    results,    \* what the last call returned when it was a search, else <<>>
    last,       \* the last call: which, on what, whether a failure was injected, how it ended
    removed,    \* the ids remove_document was called on while they were present
    faults,     \* how many failures have been injected so far
    saved,      \* what the last save() that wrote any file wrote, and whether it completed
    pc,         \* per request: where its handler (a coroutine) stands
    loc,        \* per request: the handler's arguments and local variables
    running,    \* the request whose handler holds the event loop's thread, or 0
    serial,     \* the store had the finished add/remove calls run one after another
    ans,        \* one run of LLMService.generate_answer: candidates, generator output, response
    ing,        \* one run of the ingest path: page texts, chunks, the upload's outcome
    emb,        \* one run of embed_texts: the texts, what is sent, the vectors returned
    uploads     \* the ids d whose file uploads/<d>.pdf exists

loopVars == <<pc, loc, running, serial>>

\* The runs of the answer and ingest paths, which no call on the store touches.
pureVars == <<ans, ing, emb>>

vars == <<index, chunks, documents, fIndex, fChunks, fDocs, nextId,
          results, last, removed, faults, saved, pc, loc, running, serial,
          ans, ing, emb, uploads>>

DocIds == 1..MaxDocs

Reqs == 1..MaxReqs

\* {} as a dict
EmptyDict == [d \in {} |-> d]

\* ChunkMetadata (the fields the store reads), DocumentInfo (likewise)
Chunk(d, page, idx, text) ==
    [document_id |-> d, page_number |-> page, chunk_index |-> idx, text |-> text]

DocumentInfo(d, pages, n) ==
    [document_id |-> d, page_count |-> pages, chunk_count |-> n]

\* The store object with its three files, as one value.
Store ==
    [index |-> index, chunks |-> chunks, documents |-> documents,
     fIndex |-> fIndex, fChunks |-> fChunks, fDocs |-> fDocs]

\* ------------------------------------------------------------- persistence

RECURSIVE Flatten(_)
Flatten(vs) == IF vs = <<>> THEN <<>> ELSE Head(vs) \o Flatten(Tail(vs))

\* faiss.write_index: the flat index as the file holds it
WriteIndex(ix) == [d |-> Dimension, ntotal |-> Len(ix), xb |-> Flatten(ix)]

\* faiss.read_index
ReadIndex(f) ==
    [i \in 1..f.ntotal |-> [j \in 1..f.d |-> f.xb[(i - 1) * f.d + j]]]

\* [c.model_dump() for c in self.chunks], as JSON
DumpChunks(cs) ==
    [i \in 1..Len(cs) |->
        <<cs[i].document_id, cs[i].page_number, cs[i].chunk_index, cs[i].text>>]

\* LoadChunks with page_number and chunk_index read from each other's key.
LoadChunksSwapped(js) ==
    [i \in 1..Len(js) |-> Chunk(js[i][1], js[i][3], js[i][2], js[i][4])]

\* [ChunkMetadata(**c) for c in chunks_data]
LoadChunks(js) ==
    [i \in 1..Len(js) |-> Chunk(js[i][1], js[i][2], js[i][3], js[i][4])]

\* {doc_id: doc.model_dump() ...}, as JSON
DumpDocs(docs) ==
    {<<d, docs[d].page_count, docs[d].chunk_count>> : d \in DOMAIN docs}

\* {doc_id: DocumentInfo(**doc) ...}
LoadDocs(js) ==
    [d \in {t[1] : t \in js} |->
        LET t == CHOOSE t \in js : t[1] = d
        IN  DocumentInfo(d, t[2], t[3])]

\* A file: absent, torn (a write that stopped partway: unreadable), or data.
AbsentIndex  == [kind |-> "absent", data |-> WriteIndex(<<>>)]
AbsentChunks == [kind |-> "absent", data |-> <<>>]
AbsentDocs   == [kind |-> "absent", data |-> {}]

Torn(f)    == [kind |-> "torn", data |-> f.data]
Data(x)    == [kind |-> "data", data |-> x]
Exists(f)  == f.kind # "absent"

\* Where save() can stop: a write that raises before touching its file
\* (w_*_old, also the process stopping between two writes) or partway (w_*_torn).
SaveFaults ==
    {"w_index_old", "w_index_torn", "w_chunks_old", "w_chunks_torn",
     "w_docs_old", "w_docs_torn"}

\* VectorStore.save.  self.index is never None after construction.
save(st, fault) ==
    LET i == Data(WriteIndex(st.index))
        c == Data(DumpChunks(st.chunks))
        d == Data(DumpDocs(st.documents))
    IN  CASE fault = "w_index_old" ->
               [st |-> st, raised |-> TRUE]
          [] fault = "w_index_torn" ->
               [st |-> [st EXCEPT !.fIndex = Torn(i)], raised |-> TRUE]
          [] fault = "w_chunks_old" ->
               [st |-> [st EXCEPT !.fIndex = i], raised |-> TRUE]
          [] fault = "w_chunks_torn" ->
               [st |-> [st EXCEPT !.fIndex = i, !.fChunks = Torn(c)], raised |-> TRUE]
          [] fault = "w_docs_old" ->
               [st |-> [st EXCEPT !.fIndex = i, !.fChunks = c], raised |-> TRUE]
          [] fault = "w_docs_torn" ->
               [st |-> [st EXCEPT !.fIndex = i, !.fChunks = c, !.fDocs = Torn(d)],
                raised |-> TRUE]
          [] OTHER ->
               [st |-> [st EXCEPT !.fIndex = i, !.fChunks = c, !.fDocs = d],
                raised |-> FALSE]

\* VectorStore._initialize
initialize(st) ==
    [st EXCEPT !.index = <<>>, !.chunks = <<>>, !.documents = EmptyDict]

\* VectorStore._load: any exception while reading falls back to _initialize
load(st) ==
    IF \/ st.fIndex.kind = "torn"
       \/ st.fChunks.kind = "torn"
       \/ st.fDocs.kind = "torn"
    THEN initialize(st)
    ELSE [st EXCEPT !.index = ReadIndex(st.fIndex.data),
                    !.chunks = LoadChunks(st.fChunks.data),
                    !.documents = IF Exists(st.fDocs)
                                  THEN LoadDocs(st.fDocs.data)
                                  ELSE @]

\* VectorStore._load_or_initialize
load_or_initialize(st) ==
    IF Exists(st.fIndex) /\ Exists(st.fChunks) THEN load(st) ELSE initialize(st)

\* VectorStore.__init__ over the files of st
construct(st) ==
    load_or_initialize(
        [st EXCEPT !.index = <<>>, !.chunks = <<>>, !.documents = EmptyDict])

\* ------------------------------------------------------- store operations

\* What can go wrong inside a call besides save(): the provider call of
\* embed_texts / embed_query raising, index.add raising.
CallFaults == {"none", "embed", "index_add"} \cup SaveFaults

\* Texts with the order of the texts reversed.
TextsReversed(cs) == [i \in 1..Len(cs) |-> cs[Len(cs) + 1 - i].text]

\* texts = [chunk.text for chunk in chunks]
Texts(cs) == [i \in 1..Len(cs) |-> cs[i].text]

\* self.documents[document_id] = DocumentInfo(...)
DictPut(docs, d, info) ==
    [x \in DOMAIN docs \cup {d} |-> IF x = d THEN info ELSE docs[x]]

\* del self.documents[document_id], the key being present
DictDel(docs, d) == [x \in DOMAIN docs \ {d} |-> docs[x]]

\* VectorStore.add_document
add_document(st, d, cs, fault) ==
    IF cs = <<>> THEN [st |-> st, raised |-> FALSE]
    ELSE IF fault = "embed" /\ CallsProvider(Texts(cs))
         THEN [st |-> st, raised |-> TRUE]
    ELSE IF fault = "index_add"
         THEN [st |-> st, raised |-> TRUE]
    ELSE save([st EXCEPT
                  !.index = @ \o EmbedTexts(Texts(cs)),
                  !.chunks = @ \o cs,
                  !.documents = DictPut(@, d, DocumentInfo(d, MaxPage(cs), Len(cs)))],
              fault)

\* VectorStore.remove_document
remove_document(st, d, fault) ==
    IF d \notin DOMAIN st.documents THEN [st |-> st, raised |-> FALSE]
    ELSE
    LET chunks_to_keep == SelectSeq2(st.chunks, d)
        st1 == initialize(st)
    IN  IF chunks_to_keep # <<>> /\ fault = "embed"
              /\ CallsProvider(Texts(chunks_to_keep))
        THEN [st |-> st1, raised |-> TRUE]
        ELSE IF chunks_to_keep # <<>> /\ fault = "index_add"
        THEN [st |-> st1, raised |-> TRUE]
        ELSE
        LET st2 == [st1 EXCEPT
                       !.index = IF chunks_to_keep # <<>>
                                 THEN @ \o EmbedTexts(Texts(chunks_to_keep))
                                 ELSE @,
                       !.chunks = chunks_to_keep]
        IN  IF d \notin DOMAIN st2.documents
            THEN [st |-> st2, raised |-> TRUE]      \* del: KeyError
            ELSE save([st2 EXCEPT !.documents = DictDel(@, d)], fault)

RECURSIVE TopHits(_, _, _)
\* The k best of the inner products, best first (equal scores: the earlier
\* position first).
TopHits(scores, k, taken) ==
    IF k = 0 \/ taken = DOMAIN scores THEN <<>>
    ELSE LET cand == DOMAIN scores \ taken
             best == CHOOSE i \in cand :
                        \A j \in cand :
                           \/ scores[i] > scores[j]
                           \/ scores[i] = scores[j] /\ i <= j
         IN  <<[score |-> scores[best], idx |-> best]>>
               \o TopHits(scores, k - 1, taken \cup {best})

\* faiss IndexFlatIP.search(query, k): the inner product of the query with
\* every stored vector, and the k best of them
IndexSearch(ix, qv, k) ==
    TopHits([i \in 1..Len(ix) |-> Dot(qv, ix[i])], k, {})

RECURSIVE CollectHitsOffByOne(_, _)
\* CollectHits reading the chunk one position early.
CollectHitsOffByOne(hits, cs) ==
    IF hits = <<>> THEN <<>>
    ELSE IF Head(hits).idx >= 1 /\ Head(hits).idx <= Len(cs)
         THEN <<[chunk |-> cs[IF Head(hits).idx > 1 THEN Head(hits).idx - 1 ELSE 1],
                 score |-> Head(hits).score]>>
                \o CollectHitsOffByOne(Tail(hits), cs)
         ELSE CollectHitsOffByOne(Tail(hits), cs)

RECURSIVE CollectHits(_, _)
\* the loop over zip(scores[0], indices[0]); positions are 1-based here
CollectHits(hits, cs) ==
    IF hits = <<>> THEN <<>>
    ELSE IF Head(hits).idx >= 1 /\ Head(hits).idx <= Len(cs)
         THEN <<[chunk |-> cs[Head(hits).idx], score |-> Head(hits).score]>>
                \o CollectHits(Tail(hits), cs)
         ELSE CollectHits(Tail(hits), cs)

\* VectorStore.search
search(st, query, top_k, fault) ==
    IF Len(st.index) = 0 THEN [results |-> <<>>, raised |-> FALSE]
    ELSE IF fault = "embed" /\ SanitizeText(query) # <<>>
         THEN [results |-> <<>>, raised |-> TRUE]
    ELSE LET query_embedding == EmbedText(query)
             k == Min(top_k, Len(st.index))
         IN  [results |-> CollectHits(IndexSearch(st.index, query_embedding, k),
                                      st.chunks),
              raised |-> FALSE]

\* ------------------------------------------------------------------ inputs

\* What process_pdf can hand to add_document for one upload: (page, text)
\* per chunk, pages ascending, chunk_index counting from 0.
PageTexts ==
    { << <<2, <<"a">> >> >>,
      << <<1, <<"b">> >>, <<3, <<"a", " ", "b">> >> >> }

ChunksOf(d, pts) ==
    [i \in 1..Len(pts) |-> Chunk(d, pts[i][1], i - 1, pts[i][2])]

\* Questions: the text of a stored chunk, and one that sanitizes to the
\* empty text.
Queries == { <<"a">>, <<" ", "NUL">> }

\* top_k as SearchService passes it, and a narrower width.
TopKs == {2, top_k_rerank}

NoCall ==
    [op |-> "init", doc |-> 0, injected |-> FALSE, raised |-> FALSE,
     present |-> FALSE, query |-> <<>>, k |-> 0, status |-> 0,
     generated |-> FALSE]

\* The store before anything is in it, and no file on disk.
NoStore ==
    [index |-> <<>>, chunks |-> <<>>, documents |-> EmptyDict,
     fIndex |-> AbsentIndex, fChunks |-> AbsentChunks, fDocs |-> AbsentDocs]

NoLocals ==
    [kind |-> "none", doc |-> 0, cs |-> <<>>, fault |-> "none", raised |-> FALSE,
     embeddings |-> <<>>, chunks_to_keep |-> <<>>, query |-> <<>>, k |-> 0,
     query_embedding |-> <<>>, hits |-> <<>>, entry |-> <<>>, alone |-> FALSE]

\* No run of the answer path, and none of the ingest path.
NoAnswer == [stage |-> "none", chunks |-> <<>>, result |-> <<>>, response |-> <<>>]

NoEmbed == [stage |-> "none", texts |-> <<>>, sent |-> <<>>, backend |-> <<>>,
            serverless |-> <<>>]

NoIngest == [stage |-> "none", pages |-> <<>>, chunks |-> <<>>, fault |-> "none",
             status |-> 0, caught |-> "none"]

\* ----------------------------------------------------------------- actions

InitStore ==
    LET st == construct([index |-> <<>>, chunks |-> <<>>, documents |-> EmptyDict,
                         fIndex |-> AbsentIndex, fChunks |-> AbsentChunks,
                         fDocs |-> AbsentDocs])
    IN  /\ index = st.index
        /\ chunks = st.chunks
        /\ documents = st.documents
        /\ fIndex = st.fIndex
        /\ fChunks = st.fChunks
        /\ fDocs = st.fDocs
        /\ nextId = 1
        /\ uploads = {}
        /\ results = <<>>
        /\ last = NoCall
        /\ removed = {}
        /\ faults = 0
        /\ pc = [r \in Reqs |-> "idle"]
        /\ loc = [r \in Reqs |-> NoLocals]
        /\ running = 0
        /\ serial = NoStore
        /\ saved = [complete |-> FALSE, index |-> <<>>, chunks |-> <<>>,
                    documents |-> EmptyDict]

Init ==
    /\ InitStore
    /\ ans = NoAnswer
    /\ ing = NoIngest
    /\ emb = NoEmbed

\* The store and its files become st.
Becomes(st) ==
    /\ index' = st.index
    /\ chunks' = st.chunks
    /\ documents' = st.documents
    /\ fIndex' = st.fIndex
    /\ fChunks' = st.fChunks
    /\ fDocs' = st.fDocs

\* The record of what save() last wrote, after a call that left the store st.
Saved(st, completed) ==
    IF completed
    THEN [complete |-> TRUE, index |-> st.index, chunks |-> st.chunks,
          documents |-> st.documents]
    ELSE IF <<st.fIndex, st.fChunks, st.fDocs>> # <<fIndex, fChunks, fDocs>>
         THEN [saved EXCEPT !.complete = FALSE]
         ELSE saved

\* A call may be made with this fault injected.
MayFail(fault) ==
    /\ fault # "none" => faults < MaxFaults
    /\ faults' = IF fault = "none" THEN faults ELSE faults + 1

\* upload_document's call of add_document, under a fresh uuid4
AddDocument(pts, fault) ==
    /\ nextId <= MaxDocs
    /\ MayFail(fault)
    /\ \E r \in {add_document(Store, nextId, ChunksOf(nextId, pts), fault)} :
           /\ Becomes(r.st)
           /\ saved' = Saved(r.st, ~r.raised)
           /\ last' = [NoCall EXCEPT !.op = "add", !.doc = nextId, !.injected = (fault # "none"),
                                     !.raised = r.raised]
    /\ nextId' = nextId + 1
    /\ results' = <<>>
    /\ UNCHANGED <<removed, loopVars, pureVars, uploads>>

\* remove_document(d), for any id handed out so far
RemoveDocument(d, fault) ==
    /\ d < nextId
    /\ MayFail(fault)
    /\ \E r \in {remove_document(Store, d, fault)},
          present \in {d \in DOMAIN documents} :
           /\ Becomes(r.st)
           /\ saved' = Saved(r.st, present /\ ~r.raised)
           /\ last' = [NoCall EXCEPT !.op = "remove", !.doc = d, !.injected = (fault # "none"),
                                     !.raised = r.raised, !.present = present]
           /\ removed' = IF present THEN removed \cup {d} ELSE removed
    /\ results' = <<>>
    /\ UNCHANGED <<nextId, loopVars, pureVars, uploads>>

\* SearchService.search -> VectorStore.search
Search(query, top_k, fault) ==
    /\ MayFail(fault)
    /\ \E r \in {search(Store, query, top_k, fault)} :
           /\ results' = r.results
           /\ last' = [NoCall EXCEPT !.op = "search", !.injected = (fault # "none"),
                                     !.raised = r.raised, !.query = query,
                                     !.k = top_k]
    /\ UNCHANGED <<index, chunks, documents, fIndex, fChunks, fDocs, nextId,
                   removed, saved, loopVars, pureVars, uploads>>

\* The process ends, by a crash ("crash") or by lifespan's shutdown save()
\* ("none"), and a new process constructs the VectorStore over the files.
\* A crash is no failure of a call and is not counted.
Restart(fault) ==
    /\ MayFail(IF fault = "crash" THEN "none" ELSE fault)
    /\ \E r \in {IF fault = "crash" THEN [st |-> Store, raised |-> FALSE]
                 ELSE save(Store, fault)} :
           /\ Becomes(construct(r.st))
           /\ saved' = Saved(r.st, fault = "none")
           /\ last' = [NoCall EXCEPT !.op = "restart", !.injected = (fault # "none"),
                                     !.raised = r.raised]
    /\ results' = <<>>
    /\ UNCHANGED <<nextId, removed, loopVars, pureVars, uploads>>

Calls ==
    \/ \E pts \in PageTexts, fault \in CallFaults : AddDocument(pts, fault)
    \/ \E d \in DocIds, fault \in CallFaults : RemoveDocument(d, fault)
    \/ \E q \in Queries, k \in TopKs, fault \in {"none", "embed"} : Search(q, k, fault)

Next ==
    \/ Calls
    \/ \E fault \in {"crash", "none"} : Restart(fault)

\* The program: calls on the store, and restarts of the process.
Spec == Init /\ [][Next]_vars

\* One VectorStore instance from its construction on: calls only.
SpecCalls == Init /\ [][Calls]_vars

\* --------------------------------------------------------------- handlers

\* document_exists answering yes for every id.
DocumentExistsAlways(st, d) == TRUE

\* VectorStore.document_exists
document_exists(st, d) == d \in DOMAIN st.documents

\* VectorStore.document_count
document_count(st) == Cardinality(DOMAIN st.documents)

\* The test of the candidate list never taken.
NotRelevantNever(relevant_chunks) == FALSE

\* if not relevant_chunks
NotRelevant(relevant_chunks) == relevant_chunks = <<>>

\* query_documents, whole: 400 with no document in the store, 404 with no
\* candidate, else generate_answer on the candidates.  An exception of the
\* embedding call ("embed") or of generate_answer ("generate") is not
\* caught and the request ends in a 500.
query_documents(st, question, fault) ==
    IF document_count(st) = 0
    THEN [status |-> 400, relevant_chunks |-> <<>>, generated |-> FALSE]
    ELSE LET r == search(st, question, top_k_rerank, fault)
         IN  IF r.raised
             THEN [status |-> 500, relevant_chunks |-> <<>>, generated |-> FALSE]
             ELSE IF NotRelevant(r.results)
             THEN [status |-> 404, relevant_chunks |-> r.results, generated |-> FALSE]
             ELSE [status |-> IF fault = "generate" THEN 500 ELSE 200,
                   relevant_chunks |-> r.results, generated |-> TRUE]

\* POST /query
Query(question, fault) ==
    /\ MayFail(fault)
    /\ \E q \in {query_documents(Store, question, fault)} :
           /\ results' = q.relevant_chunks
           /\ last' = [NoCall EXCEPT !.op = "query", !.injected = (fault # "none"),
                                     !.raised = (q.status = 500),
                                     !.query = question, !.k = top_k_rerank,
                                     !.status = q.status,
                                     !.generated = q.generated]
    /\ UNCHANGED <<index, chunks, documents, fIndex, fChunks, fDocs, nextId,
                   removed, saved, loopVars, pureVars, uploads>>

\* delete_document, whole: 404 for an id the store does not know, else
\* remove_document, whose exceptions are not caught (500).  The uploaded
\* file it unlinks afterwards is no part of the store.
delete_document(st, d, fault) ==
    IF ~document_exists(st, d)
    THEN [st |-> st, status |-> 404, called |-> FALSE]
    ELSE LET r == remove_document(st, d, fault)
         IN  [st |-> r.st, status |-> IF r.raised THEN 500 ELSE 200,
              called |-> TRUE]

\* DELETE /documents/{document_id}, for any id a client may send
DeleteDocument(d, fault) ==
    /\ MayFail(fault)
    /\ \E r \in {delete_document(Store, d, fault)},
          present \in {d \in DOMAIN documents} :
           /\ Becomes(r.st)
           /\ uploads' = IF r.status = 200 THEN uploads \ {d} ELSE uploads
           /\ saved' = Saved(r.st, r.status = 200)
           /\ last' = [NoCall EXCEPT !.op = "delete", !.doc = d,
                                     !.injected = (fault # "none"),
                                     !.raised = (r.status = 500),
                                     !.present = present, !.status = r.status]
           /\ removed' = IF r.called THEN removed \cup {d} ELSE removed
    /\ results' = <<>>
    /\ UNCHANGED <<nextId, loopVars, pureVars>>

\* How the process can end: a crash, lifespan's shutdown save() going
\* through, or that save() stopping at one of its writes.
Shutdowns == {"crash", "none"} \cup SaveFaults

Routes ==
    \/ Calls
    \/ \E q \in Queries, fault \in {"none", "embed", "generate"} : Query(q, fault)
    \/ \E d \in DocIds, fault \in CallFaults : DeleteDocument(d, fault)
    \/ \E fault \in Shutdowns : Restart(fault)

\* The store behind its request handlers, over restarts of the process.
SpecRoutes == Init /\ [][Routes]_vars

\* ----------------------------------------------- handlers on the event loop

\* The three routes are `async def` and run on the event loop's one thread.
\* A handler keeps the thread from step to step and gives it up only where
\* it awaits (upload_document: `await file.read()`) or ends.
YieldsAlways(p) == TRUE

Yields(p) == p \in {"idle", "u_await", "done"}

\* Any request may take a step at any time.
CanRunAlways(r) == TRUE

\* Request r may take a step: the thread is free or r holds it.
CanRun(r) == running \in {0, r}

\* Where a handler stands inside add_document or remove_document.
MutationPcs ==
    {"a_embed", "a_index", "a_extend", "a_docs", "a_save",
     "r_keep", "r_init", "r_rebuild", "r_chunks", "r_del"}

\* Where a handler stands inside search.
SearchPcs == {"s_ntotal", "s_embed", "s_index", "s_collect"}

\* The call of an upload or delete request with locals l, run in one piece
\* on the store st.
RunAlone(l, st) ==
    IF l.kind = "upload" THEN add_document(st, l.doc, l.cs, l.fault)
    ELSE remove_document(st, l.doc, l.fault)

\* r moves to p with its locals l; the thread is released if r yields there.
\* A handler that ends keeps only what it answers.  When r leaves
\* add_document or remove_document, the same call is run in one piece on
\* `serial`, and whether that raised is noted in `alone`.
Goto(r, p, l) ==
    /\ pc' = [pc EXCEPT ![r] = p]
    /\ running' = IF Yields(p) THEN 0 ELSE r
    /\ IF pc[r] \in MutationPcs /\ p = "done"
       THEN \E a \in {RunAlone(l, serial)} :
               /\ serial' = a.st
               /\ loc' = [loc EXCEPT ![r] =
                             [NoLocals EXCEPT !.kind = l.kind, !.doc = l.doc,
                                              !.raised = l.raised,
                                              !.alone = a.raised]]
       ELSE /\ serial' = serial
            /\ loc' = [loc EXCEPT ![r] =
                          IF p = "done"
                          THEN [NoLocals EXCEPT !.kind = l.kind, !.raised = l.raised]
                          ELSE l]

ghostVars == <<last, removed, saved>>

memVars == <<index, chunks, documents>>

fileVars == <<fIndex, fChunks, fDocs>>

\* POST /upload arrives: filename check, uuid4, then `await file.read()`
UploadStart(r) ==
    /\ pc[r] = "idle" /\ CanRun(r)
    /\ nextId <= MaxDocs
    /\ Goto(r, "u_await", [NoLocals EXCEPT !.kind = "upload", !.doc = nextId])
    /\ nextId' = nextId + 1
    /\ UNCHANGED <<memVars, fileVars, results, ghostVars, pureVars, faults, uploads>>

\* file.read() is done: the file is written, process_pdf gives the chunks,
\* and add_document is entered
UploadResume(r, pts) ==
    /\ pc[r] = "u_await" /\ CanRun(r)
    /\ Goto(r, "a_embed", [loc[r] EXCEPT !.cs = ChunksOf(loc[r].doc, pts)])
    /\ uploads' = uploads \cup {loc[r].doc}
    /\ UNCHANGED <<memVars, fileVars, nextId, results, ghostVars, pureVars, faults>>

\* add_document: embeddings = self.embedding_service.embed_texts(texts)
AddEmbed(r, fault) ==
    /\ pc[r] = "a_embed" /\ CanRun(r)
    /\ fault = "embed" => CallsProvider(Texts(loc[r].cs))
    /\ MayFail(fault)
    /\ IF fault = "embed"
       THEN Goto(r, "done", [loc[r] EXCEPT !.raised = TRUE, !.fault = fault])
       ELSE Goto(r, "a_index",
                 [loc[r] EXCEPT !.embeddings = EmbedTexts(Texts(loc[r].cs))])
    /\ uploads' = IF fault = "embed" THEN uploads \ {loc[r].doc} ELSE uploads
    /\ UNCHANGED <<memVars, fileVars, nextId, results, ghostVars, pureVars>>

\* add_document: self.index.add(embeddings)
AddIndex(r, fault) ==
    /\ pc[r] = "a_index" /\ CanRun(r)
    /\ MayFail(fault)
    /\ IF fault = "index_add"
       THEN /\ Goto(r, "done", [loc[r] EXCEPT !.raised = TRUE, !.fault = fault])
            /\ UNCHANGED index
       ELSE /\ index' = index \o loc[r].embeddings
            /\ Goto(r, "a_extend", loc[r])
    /\ uploads' = IF fault = "index_add" THEN uploads \ {loc[r].doc} ELSE uploads
    /\ UNCHANGED <<chunks, documents, fileVars, nextId, results, ghostVars, pureVars>>

\* add_document: self.chunks.extend(chunks)
AddExtend(r) ==
    /\ pc[r] = "a_extend" /\ CanRun(r)
    /\ chunks' = chunks \o loc[r].cs
    /\ Goto(r, "a_docs", loc[r])
    /\ UNCHANGED <<index, documents, fileVars, nextId, results, ghostVars, pureVars, faults, uploads>>

\* add_document: self.documents[document_id] = DocumentInfo(...)
AddDocs(r) ==
    /\ pc[r] = "a_docs" /\ CanRun(r)
    /\ documents' = DictPut(documents, loc[r].doc,
                            DocumentInfo(loc[r].doc, MaxPage(loc[r].cs), Len(loc[r].cs)))
    /\ Goto(r, "a_save", loc[r])
    /\ UNCHANGED <<index, chunks, fileVars, nextId, results, ghostVars, pureVars, faults, uploads>>

\* add_document: self.save(), and the handler ends
AddSave(r, fault) ==
    /\ pc[r] = "a_save" /\ CanRun(r)
    /\ MayFail(fault)
    /\ \E s \in {save(Store, fault)} :
          /\ Becomes(s.st)
          /\ uploads' = IF s.raised THEN uploads \ {loc[r].doc} ELSE uploads
          /\ Goto(r, "done", [loc[r] EXCEPT !.raised = s.raised, !.fault = fault])
    /\ UNCHANGED <<nextId, results, ghostVars, pureVars>>

\* DELETE /documents/{id} arrives
DeleteStart(r, d) ==
    /\ pc[r] = "idle" /\ CanRun(r)
    /\ d < nextId
    /\ Goto(r, "d_exists", [NoLocals EXCEPT !.kind = "delete", !.doc = d])
    /\ UNCHANGED <<memVars, fileVars, nextId, results, ghostVars, pureVars, faults, uploads>>

\* delete_document: 404 unless vector_store.document_exists(document_id);
\* else remove_document is entered
DeleteExists(r) ==
    /\ pc[r] = "d_exists" /\ CanRun(r)
    /\ IF loc[r].doc \in DOMAIN documents
       THEN Goto(r, "r_keep", loc[r])
       ELSE Goto(r, "done", [loc[r] EXCEPT !.kind = "delete404", !.raised = TRUE])
    /\ UNCHANGED <<memVars, fileVars, nextId, results, ghostVars, pureVars, faults, uploads>>

\* remove_document: the membership test and chunks_to_keep
RemoveKeep(r) ==
    /\ pc[r] = "r_keep" /\ CanRun(r)
    /\ IF loc[r].doc \notin DOMAIN documents
       THEN Goto(r, "done", loc[r])
       ELSE Goto(r, "r_init",
                 [loc[r] EXCEPT !.chunks_to_keep = SelectSeq2(chunks, loc[r].doc)])
    /\ uploads' = IF loc[r].doc \notin DOMAIN documents
                  THEN uploads \ {loc[r].doc} ELSE uploads
    /\ UNCHANGED <<memVars, fileVars, nextId, results, ghostVars, pureVars, faults>>

\* remove_document: self._initialize()
RemoveInit(r) ==
    /\ pc[r] = "r_init" /\ CanRun(r)
    /\ \E st \in {initialize(Store)} : Becomes(st)
    /\ Goto(r, "r_rebuild", loc[r])
    /\ UNCHANGED <<nextId, results, ghostVars, pureVars, faults, uploads>>

\* remove_document: if chunks_to_keep: embed_texts and self.index.add
RemoveRebuild(r, fault) ==
    /\ pc[r] = "r_rebuild" /\ CanRun(r)
    /\ fault # "none" => loc[r].chunks_to_keep # <<>>
    /\ fault = "embed" => CallsProvider(Texts(loc[r].chunks_to_keep))
    /\ MayFail(fault)
    /\ LET keep == loc[r].chunks_to_keep
       IN  IF fault # "none"
           THEN /\ Goto(r, "done", [loc[r] EXCEPT !.raised = TRUE, !.fault = fault])
                /\ UNCHANGED index
           ELSE /\ index' = IF keep # <<>> THEN index \o EmbedTexts(Texts(keep))
                            ELSE index
                /\ Goto(r, "r_chunks", loc[r])
    /\ UNCHANGED <<chunks, documents, fileVars, nextId, results, ghostVars, pureVars, uploads>>

\* remove_document: self.chunks = chunks_to_keep
RemoveChunks(r) ==
    /\ pc[r] = "r_chunks" /\ CanRun(r)
    /\ chunks' = loc[r].chunks_to_keep
    /\ Goto(r, "r_del", loc[r])
    /\ UNCHANGED <<index, documents, fileVars, nextId, results, ghostVars, pureVars, faults, uploads>>

\* remove_document: del self.documents[document_id]; self.save()
RemoveFinish(r) ==
    /\ pc[r] = "r_del" /\ CanRun(r)
    /\ \E s \in {IF loc[r].doc \notin DOMAIN documents
                 THEN [st |-> Store, raised |-> TRUE]      \* KeyError
                 ELSE save([Store EXCEPT !.documents = DictDel(@, loc[r].doc)],
                           "none")} :
          /\ Becomes(s.st)
          /\ uploads' = IF s.raised THEN uploads ELSE uploads \ {loc[r].doc}
          /\ Goto(r, "done", [loc[r] EXCEPT !.raised = s.raised])
    /\ UNCHANGED <<nextId, results, ghostVars, pureVars, faults>>

\* POST /query arrives
QueryStart(r, q, k) ==
    /\ pc[r] = "idle" /\ CanRun(r)
    /\ Goto(r, "q_count", [NoLocals EXCEPT !.kind = "query", !.query = q, !.k = k])
    /\ UNCHANGED <<memVars, fileVars, nextId, results, ghostVars, pureVars, faults, uploads>>

\* query_documents: 400 when vector_store.document_count == 0; else search
QueryCount(r) ==
    /\ pc[r] = "q_count" /\ CanRun(r)
    /\ IF DOMAIN documents = {}
       THEN Goto(r, "done", [loc[r] EXCEPT !.kind = "query400", !.raised = TRUE])
       ELSE Goto(r, "s_ntotal", [loc[r] EXCEPT !.entry = <<index, chunks, documents>>])
    /\ UNCHANGED <<memVars, fileVars, nextId, results, ghostVars, pureVars, faults, uploads>>

\* search: if self.index.ntotal == 0: return []
SearchNtotal(r) ==
    /\ pc[r] = "s_ntotal" /\ CanRun(r)
    /\ IF Len(index) = 0
       THEN /\ Goto(r, "done", loc[r])
            /\ results' = <<>>
       ELSE /\ Goto(r, "s_embed", loc[r])
            /\ UNCHANGED results
    /\ UNCHANGED <<memVars, fileVars, nextId, ghostVars, pureVars, faults, uploads>>

\* search: query_embedding = self.embedding_service.embed_query(query)
SearchEmbed(r, fault) ==
    /\ pc[r] = "s_embed" /\ CanRun(r)
    /\ fault = "embed" => SanitizeText(loc[r].query) # <<>>
    /\ MayFail(fault)
    /\ IF fault = "embed"
       THEN Goto(r, "done", [loc[r] EXCEPT !.raised = TRUE])
       ELSE Goto(r, "s_index", [loc[r] EXCEPT !.query_embedding = EmbedText(loc[r].query)])
    /\ UNCHANGED <<memVars, fileVars, nextId, results, ghostVars, pureVars, uploads>>

\* search: k = min(top_k, ntotal); self.index.search(query_embedding, k)
SearchIndex(r) ==
    /\ pc[r] = "s_index" /\ CanRun(r)
    /\ Goto(r, "s_collect",
            [loc[r] EXCEPT !.hits = IndexSearch(index, loc[r].query_embedding,
                                                Min(loc[r].k, Len(index)))])
    /\ UNCHANGED <<memVars, fileVars, nextId, results, ghostVars, pureVars, faults, uploads>>

\* search: the loop over the hits, reading self.chunks; the handler ends
SearchCollect(r) ==
    /\ pc[r] = "s_collect" /\ CanRun(r)
    /\ results' = CollectHits(loc[r].hits, chunks)
    /\ Goto(r, "done", loc[r])
    /\ UNCHANGED <<memVars, fileVars, nextId, ghostVars, pureVars, faults, uploads>>

\* The response is sent; the next request may arrive.
Respond(r) ==
    /\ pc[r] = "done" /\ CanRun(r)
    /\ Goto(r, "idle", NoLocals)
    /\ results' = <<>>
    /\ UNCHANGED <<memVars, fileVars, nextId, ghostVars, pureVars, faults, uploads>>

LoopNext ==
    \E r \in Reqs :
        \/ UploadStart(r)
        \/ \E pts \in PageTexts : UploadResume(r, pts)
        \/ \E fault \in {"none", "embed"} : AddEmbed(r, fault)
        \/ \E fault \in {"none", "index_add"} : AddIndex(r, fault)
        \/ AddExtend(r) \/ AddDocs(r)
        \/ \E fault \in {"none"} \cup SaveFaults : AddSave(r, fault)
        \/ \E d \in DocIds : DeleteStart(r, d)
        \/ DeleteExists(r)
        \/ RemoveKeep(r) \/ RemoveInit(r)
        \/ \E fault \in {"none", "embed", "index_add"} : RemoveRebuild(r, fault)
        \/ RemoveChunks(r)
        \/ RemoveFinish(r)
        \/ \E q \in Queries, k \in TopKs : QueryStart(r, q, k)
        \/ QueryCount(r)
        \/ SearchNtotal(r)
        \/ \E fault \in {"none", "embed"} : SearchEmbed(r, fault)
        \/ SearchIndex(r) \/ SearchCollect(r)
        \/ Respond(r)

\* One VectorStore instance serving requests that are in flight together.
SpecLoop == Init /\ [][LoopNext]_vars

\* ---------------------------------------------------------- the answer path

Max(a, b) == IF a >= b THEN a ELSE b

\* s[:n]
Take(s, n) == SubSeq(s, 1, Min(n, Len(s)))

\* dict.get(key, default) on an optional value: <<>> is "key absent"
Get(opt, default) == IF opt = <<>> THEN default ELSE opt[1]

Ellipsis == <<".", ".", ".">>

\* excerpt = chunk.text[:200]; if len(chunk.text) > 200: excerpt += "..."
Excerpt(text) ==
    IF Len(text) > EXCERPT_CHARS
    THEN Take(text, EXCERPT_CHARS) \o Ellipsis
    ELSE Take(text, EXCERPT_CHARS)

\* Citation(...) built from one (chunk, score) candidate
Citation(candidate) ==
    [document_name   |-> candidate.chunk.document_name,
     page_number     |-> candidate.chunk.page_number,
     text_excerpt    |-> Excerpt(candidate.chunk.text),
     relevance_score |-> candidate.score]

\* The source number taken as the index itself.
RefIndexUnshifted(ref) == Get(ref, DEFAULT_SOURCE_NUMBER)

\* idx = ref.get("source_number", 1) - 1
RefIndex(ref) == Get(ref, DEFAULT_SOURCE_NUMBER) - 1

\* if 0 <= idx < len(chunks)
InBounds(idx, n) == 0 <= idx /\ idx < n

RECURSIVE CitationsFromRefs(_, _)
\* _build_citations: the loop over citation_refs
CitationsFromRefs(citation_refs, relevant_chunks) ==
    IF citation_refs = <<>> THEN <<>>
    ELSE LET idx == RefIndex(Head(citation_refs))
             n   == Len(relevant_chunks)
         IN  (IF InBounds(idx, n)
              THEN <<Citation(relevant_chunks[idx + 1])>>
              ELSE <<>>)
             \o CitationsFromRefs(Tail(citation_refs), relevant_chunks)

\* _build_citations
BuildCitations(citation_refs, relevant_chunks) ==
    LET citations == CitationsFromRefs(citation_refs, relevant_chunks)
    IN  IF citations = <<>> /\ relevant_chunks # <<>>
        THEN [i \in 1..Min(FALLBACK_CITATIONS, Len(relevant_chunks)) |->
                 Citation(relevant_chunks[i])]
        ELSE citations

\* The clamp with its lower side left out.
ClampAbove(c) == Min(c, CONFIDENCE_ONE)

\* min(max(c, 0), 1)
Clamp(c) == Min(Max(c, 0), CONFIDENCE_ONE)

\* generate_answer from the generator's content on: json.loads raises on
\* content that is no JSON; else the QueryResponse
GenerateAnswer(result, relevant_chunks) ==
    IF ~result.parses THEN [raised |-> TRUE, response |-> <<>>]
    ELSE [raised |-> FALSE,
          response |->
             [confidence |-> Clamp(Get(result.confidence, DEFAULT_CONFIDENCE)),
              citations  |-> BuildCitations(Get(result.citations, <<>>),
                                            relevant_chunks)]]

\* Texts for candidates: n times "x", and the same ending in "y".
Xs(n) == [k \in 1..n |-> "x"]

XsY(n) == [k \in 1..n |-> IF k = n THEN "y" ELSE "x"]

\* n ranked candidates; the one at position long (if any) has a text one
\* character over the excerpt limit, the first else one exactly at the limit.
Candidates(n, long) ==
    [i \in 1..n |->
        [chunk |-> [document_name |-> "doc", page_number |-> i,
                    text |-> IF i = long THEN XsY(EXCERPT_CHARS + 1)
                             ELSE IF i = 1 THEN XsY(EXCERPT_CHARS)
                             ELSE Xs(i)],
         score |-> MaxCandidates + 1 - i]]

CandidateLists == {Candidates(n, long) : n \in 0..MaxCandidates, long \in 0..MaxCandidates}

\* A citation reference: {} or {"source_number": n}
CitationRefs ==
    {<<>>} \cup {<<n>> : n \in {-1, 0, 1, 2, MaxCandidates, MaxCandidates + 1}}

RefLists == UNION {[1..n -> CitationRefs] : n \in 0..MaxRefs}

\* The generator's "confidence": absent, or a number (in tenths)
Confidences == {<<>>} \cup {<<c>> : c \in {-30, 0, 7, 10, 15}}

\* What the generator returns: content that is no JSON, or an object with
\* optional "confidence" and "citations"
GeneratorResults ==
    {[parses |-> FALSE, confidence |-> <<>>, citations |-> <<>>]}
      \cup {[parses |-> TRUE, confidence |-> c, citations |-> <<>>] : c \in Confidences}
      \cup {[parses |-> TRUE, confidence |-> c, citations |-> <<refs>>] :
                c \in Confidences, refs \in RefLists}

InitAnswer ==
    /\ InitStore
    /\ ing = NoIngest
    /\ emb = NoEmbed
    /\ \E cs \in CandidateLists, result \in GeneratorResults :
          ans = [stage |-> "asked", chunks |-> cs, result |-> result, response |-> <<>>]

\* llm_service.generate_answer(question, relevant_chunks), the generator
\* having returned ans.result
Answer ==
    /\ ans.stage = "asked"
    /\ \E a \in {GenerateAnswer(ans.result, ans.chunks)} :
          ans' = [ans EXCEPT !.stage = IF a.raised THEN "failed" ELSE "answered",
                             !.response = a.response]
    /\ UNCHANGED <<index, chunks, documents, fIndex, fChunks, fDocs, nextId,
                   results, last, removed, faults, saved, loopVars, ing, emb, uploads>>

\* Answer assembly over every candidate list and generator output.
SpecAnswer == InitAnswer /\ [][Answer]_vars

\* ---------------------------------------------------------- the ingest path

Terminators == {".", "!", "?"}

\* `not text.strip()`: nothing but whitespace
IsBlank(t) == \A i \in 1..Len(t) : t[i] \in Whitespace

RECURSIVE LStrip(_)
LStrip(t) == IF t # <<>> /\ Head(t) \in Whitespace THEN LStrip(Tail(t)) ELSE t

RECURSIVE RStrip(_)
RStrip(t) ==
    IF t # <<>> /\ t[Len(t)] \in Whitespace THEN RStrip(SubSeq(t, 1, Len(t) - 1)) ELSE t

\* str.strip()
StripWs(t) == RStrip(LStrip(t))

\* PDFService._clean_text
CleanText(t) == StripWs(CollapseWs(DropControl(t)))

RECURSIVE SplitAfterTerminators(_, _)
\* re.split(r'(?<=[.!?])\s+', text): cut at each whitespace run that follows
\* a terminator; `piece` is the piece being read
SplitAfterTerminators(t, piece) ==
    IF t = <<>> THEN <<piece>>
    ELSE IF Head(t) \in Whitespace /\ piece # <<>> /\ piece[Len(piece)] \in Terminators
         THEN <<piece>> \o SplitAfterTerminators(LStrip(t), <<>>)
         ELSE SplitAfterTerminators(Tail(t), Append(piece, Head(t)))

RECURSIVE NonEmptyStripped(_)
\* [s.strip() for s in sentences if s.strip()]
NonEmptyStripped(ss) ==
    IF ss = <<>> THEN <<>>
    ELSE (IF StripWs(Head(ss)) # <<>> THEN <<StripWs(Head(ss))>> ELSE <<>>)
         \o NonEmptyStripped(Tail(ss))

\* PDFService._split_into_sentences
SplitIntoSentences(text) == NonEmptyStripped(SplitAfterTerminators(text, <<>>))

\* PDFService._get_overlap_text
GetOverlapText(text) ==
    IF Len(text) <= chunk_overlap THEN text
    ELSE LET overlap_start == Len(text) - chunk_overlap
             spaces == {p \in (overlap_start + 1)..Len(text) : text[p] = " "}
         IN  IF spaces # {}
             THEN LET space_pos == CHOOSE p \in spaces : \A q \in spaces : p <= q
                  IN  SubSeq(text, space_pos + 1, Len(text))
             ELSE SubSeq(text, overlap_start + 1, Len(text))

RECURSIVE ChunkSentences(_, _, _, _, _)
\* _create_chunks: the loop over the sentences and the last chunk
ChunkSentences(sentences, current_chunk, chunk_index, d, page) ==
    IF sentences = <<>>
    THEN IF StripWs(current_chunk) # <<>>
         THEN <<Chunk(d, page, chunk_index, StripWs(current_chunk))>>
         ELSE <<>>
    ELSE LET sentence_with_space == Head(sentences) \o <<" ">>
         IN  IF Len(current_chunk) + Len(sentence_with_space) <= chunk_size
             THEN ChunkSentences(Tail(sentences), current_chunk \o sentence_with_space,
                                 chunk_index, d, page)
             ELSE LET next_chunk == GetOverlapText(current_chunk) \o sentence_with_space
                  IN  IF StripWs(current_chunk) # <<>>
                      THEN <<Chunk(d, page, chunk_index, StripWs(current_chunk))>>
                           \o ChunkSentences(Tail(sentences), next_chunk,
                                             chunk_index + 1, d, page)
                      ELSE ChunkSentences(Tail(sentences), next_chunk,
                                          chunk_index, d, page)

\* The single-chunk test one character too strict.
FitsOneChunkStrict(text) == Len(text) < chunk_size

\* if len(text) <= self.chunk_size
FitsOneChunk(text) == Len(text) <= chunk_size

\* PDFService._create_chunks
CreateChunks(text, d, page, start_chunk_index) ==
    IF FitsOneChunk(text)
    THEN <<Chunk(d, page, start_chunk_index, text)>>
    ELSE ChunkSentences(SplitIntoSentences(text), <<>>, start_chunk_index, d, page)

\* Every page's chunks counted from 0.
StartIndexZero(cs) == 0

\* start_chunk_index=len(chunks)
StartIndex(cs) == Len(cs)

RECURSIVE ProcessPages(_, _, _, _)
\* process_pdf: the loop over the pages, page_num from 0
ProcessPages(pages, page_num, cs, d) ==
    IF page_num >= Len(pages) THEN cs
    ELSE LET text == pages[page_num + 1]
         IN  IF IsBlank(text) THEN ProcessPages(pages, page_num + 1, cs, d)
             ELSE ProcessPages(pages, page_num + 1,
                               cs \o CreateChunks(CleanText(text), d, page_num + 1,
                                                  StartIndex(cs)),
                               d)

\* PDFService.process_pdf, on the texts of the PDF's pages
process_pdf(pages, d) == ProcessPages(pages, 0, <<>>, d)

\* A sentence of n characters: letters and a full stop.
Word(n) == [k \in 1..n |-> IF k = n THEN "." ELSE "a"]

Sentences ==
    {Word(2), <<"a", "b", " ", "c", ".">>, Word(chunk_size - 3), Word(chunk_size),
     Word(chunk_size + 2)}

RECURSIVE Join(_)
Join(ss) ==
    IF ss = <<>> THEN <<>>
    ELSE IF Len(ss) = 1 THEN ss[1]
    ELSE ss[1] \o <<" ">> \o Join(Tail(ss))

\* Page texts as page.get_text gives them: sentences joined by spaces, and
\* pages of whitespace, of control characters, and of both.
SentencePages == {Join(ss) : ss \in UNION {[1..n -> Sentences] : n \in 1..MaxSentences}}

OddPages ==
    {<<>>, <<" ", "NL">>, <<"NUL">>, <<"NL", "NUL", " ">>,
     <<"NL", "a", ".", " ", "NL", "b", "NUL", "!", " ">>}

\* Pages for PDFs of several pages.
FewPages ==
    {<<" ", "NL">>, <<"NUL">>, Word(2),
     Join(<<Word(chunk_size - 3), Word(2), Word(chunk_size)>>)}

Pdfs ==
    {<<p>> : p \in SentencePages \cup OddPages}
      \cup UNION {[1..n -> FewPages] : n \in 2..MaxPages}

\* Where upload_document's try block can raise other than by its own 400:
\* process_pdf (fitz), the embedding call in add_document.
UploadFaults == {"none", "process_pdf", "embed"}

\* upload_document from the file's being written on: the try block and its
\* except clause, which catches every Exception, the HTTPException raised for
\* an empty chunk list included, unlinks the file and raises
\* HTTPException(500).  file: whether uploads/<d>.pdf is left behind.
upload_document(st, d, pages, fault) ==
    IF fault = "process_pdf"
    THEN [st |-> st, chunks |-> <<>>, status |-> 500, caught |-> "process_pdf",
          file |-> FALSE]
    ELSE LET cs == process_pdf(pages, d)
         IN  IF cs = <<>>
             THEN [st |-> st, chunks |-> cs, status |-> 500, caught |-> "400",
                   file |-> FALSE]
             ELSE LET a == add_document(st, d, cs, fault)
                  IN  IF a.raised
                      THEN [st |-> a.st, chunks |-> cs, status |-> 500,
                            caught |-> "embed", file |-> FALSE]
                      ELSE [st |-> a.st, chunks |-> cs, status |-> 200,
                            caught |-> "none", file |-> TRUE]

InitIngest ==
    /\ InitStore
    /\ ans = NoAnswer
    /\ emb = NoEmbed
    /\ \E pages \in Pdfs, fault \in UploadFaults :
          ing = [stage |-> "uploaded", pages |-> pages, chunks |-> <<>>,
                 fault |-> fault, status |-> 0, caught |-> "none"]

\* POST /upload of a PDF with the page texts ing.pages
UploadDocument ==
    /\ ing.stage = "uploaded"
    /\ \E u \in {upload_document(Store, nextId, ing.pages, ing.fault)} :
          /\ Becomes(u.st)
          /\ uploads' = IF u.file THEN uploads \cup {nextId} ELSE uploads \ {nextId}
          /\ ing' = [ing EXCEPT !.stage = "responded", !.chunks = u.chunks,
                                !.status = u.status, !.caught = u.caught]
    /\ nextId' = nextId + 1
    /\ UNCHANGED <<results, last, removed, faults, saved, loopVars, ans, emb>>

\* Uploads of every PDF on an empty store.
SpecIngest == InitIngest /\ [][UploadDocument]_vars

\* --------------------------------------------------- uploads and deletes

\* PDFs sent to POST /upload: one page with text, and one blank page.
UploadedPdfs == { << <<"a">> >>, << <<" ", "NL">> >> }

\* POST /upload, whole, under a fresh uuid4
Upload(pages, fault) ==
    /\ nextId <= MaxDocs
    /\ MayFail(fault)
    /\ \E u \in {upload_document(Store, nextId, pages, fault)} :
           /\ Becomes(u.st)
           /\ uploads' = IF u.file THEN uploads \cup {nextId} ELSE uploads \ {nextId}
           /\ saved' = Saved(u.st, u.status = 200)
           /\ last' = [NoCall EXCEPT !.op = "upload", !.doc = nextId,
                                     !.injected = (fault # "none"),
                                     !.raised = (u.status = 500),
                                     !.status = u.status]
    /\ nextId' = nextId + 1
    /\ results' = <<>>
    /\ UNCHANGED <<removed, loopVars, pureVars>>

Handlers ==
    \/ \E pages \in UploadedPdfs, fault \in {"process_pdf"} \cup CallFaults :
          Upload(pages, fault)
    \/ \E d \in DocIds, fault \in CallFaults : DeleteDocument(d, fault)
    \/ \E q \in Queries, fault \in {"none", "embed", "generate"} : Query(q, fault)
    \/ \E fault \in Shutdowns : Restart(fault)

\* The requests of the document routes, one after another, over restarts.
SpecHandlers == Init /\ [][Handlers]_vars

\* ------------------------------------------------------- the embedding path

RECURSIVE Batches(_, _)
\* the batches of embed_texts: valid_texts[i:i + BATCH_SIZE] over
\* range(0, len(valid_texts), BATCH_SIZE)
Batches(valid_texts, i) ==
    IF i > Len(valid_texts) THEN <<>>
    ELSE <<SubSeq(valid_texts, i, Min(i + BATCH_SIZE - 1, Len(valid_texts)))>>
           \o Batches(valid_texts, i + BATCH_SIZE)

\* What embed_texts sends to the provider, batch by batch (both variants).
SentBatches(texts) ==
    LET sanitized     == [i \in 1..Len(texts) |-> SanitizeText(texts[i])]
        valid_indices == ValidIndices(sanitized, 1)
        valid_texts   == [j \in 1..Len(valid_indices) |-> sanitized[valid_indices[j]]]
    IN  Batches(valid_texts, 1)

\* emb / np.linalg.norm(emb), the norm not tested (fixed point, 5 = 1.0)
NormalizeUnchecked(v) == [i \in 1..Len(v) |-> (v[i] * 5) \div Norm(v)]

\* embed_texts of the serverless handler, when the provider answers: one
\* vector per valid text
embed_texts(texts) ==
    LET sanitized     == [i \in 1..Len(texts) |-> SanitizeText(texts[i])]
        valid_indices == ValidIndices(sanitized, 1)
        valid_texts   == [j \in 1..Len(valid_indices) |-> sanitized[valid_indices[j]]]
        all_embeddings == EmbedBatches(valid_texts, 1)
    IN  IF texts = <<>> THEN <<>>
        ELSE IF valid_texts = <<>> THEN [i \in 1..Len(texts) |-> ZeroVector]
        ELSE [j \in 1..Len(all_embeddings) |-> NormalizeUnchecked(all_embeddings[j])]

\* Texts handed to embed_texts: empty, empty once sanitized, and three the
\* provider tells apart.
EmbedInputs == {<<>>, <<" ", "NUL">>, <<"a">>, <<"b">>, <<"a", " ", "b">>}

TextLists == UNION {[1..n -> EmbedInputs] : n \in 0..MaxTexts}

InitEmbed ==
    /\ InitStore
    /\ ans = NoAnswer
    /\ ing = NoIngest
    /\ \E texts \in TextLists : emb = [NoEmbed EXCEPT !.stage = "asked", !.texts = texts]

\* embed_texts(texts), by the service and by the serverless handler
Embed ==
    /\ emb.stage = "asked"
    /\ emb' = [emb EXCEPT !.stage = "embedded",
                          !.sent = SentBatches(emb.texts),
                          !.backend = EmbedTexts(emb.texts),
                          !.serverless = embed_texts(emb.texts)]
    /\ UNCHANGED <<index, chunks, documents, fIndex, fChunks, fDocs, nextId,
                   results, last, removed, faults, saved, loopVars, ans, ing, uploads>>

\* embed_texts over every list of texts.
SpecEmbed == InitEmbed /\ [][Embed]_vars

\* -------------------------------------------------------------- properties

\* Position for position, the vectors vs are the embeddings of the texts of cs.
AlignedPair(vs, cs) ==
    /\ Len(vs) = Len(cs)
    /\ \A i \in 1..Len(cs) : vs[i] = EmbedText(cs[i].text)

\* C1: between calls of add_document, remove_document and search on one
\* VectorStore, whether they return or raise, the index holds as many vectors
\* as there are chunks and the vector at position i is the embedding of
\* chunks[i].text.
C1_Alignment == AlignedPair(index, chunks)

\* C1 witness: a rebuild by remove_document that left chunks of another document.
C1_Witness ==
    /\ last.op = "remove" /\ last.present
    /\ Len(chunks) > 0
    /\ AlignedPair(index, chunks)

\* The positions of the chunks of document d in cs.
PositionsOf(cs, d) == {i \in 1..Len(cs) : cs[i].document_id = d}

\* The entry info counts the chunks of d in cs and carries their largest page.
AggregateOf(info, cs, d) ==
    LET pages == {cs[i].page_number : i \in PositionsOf(cs, d)}
    IN  /\ info.chunk_count = Cardinality(PositionsOf(cs, d))
        /\ pages # {}
        /\ info.page_count \in pages
        /\ \A p \in pages : p <= info.page_count

\* C3: after any sequence of add_document and remove_document calls, every
\* entry of documents has chunk_count equal to the number of chunks of that
\* document and page_count equal to the largest page_number among them.
C3_DocumentAggregate ==
    \A d \in DOMAIN documents : AggregateOf(documents[d], chunks, d)

\* C3 witness: two documents are in the store, the second just added.
C3_Witness ==
    /\ last.op = "add" /\ ~last.raised
    /\ Cardinality(DOMAIN documents) = 2
    /\ \E d \in DOMAIN documents : documents[d].page_count # documents[d].chunk_count

\* C2 (as claimed): once remove_document(d) was called with d present, no
\* chunk of d is in the store and no search returns one, in every later
\* state, also after a reconstruction from the persisted files.
C2_RemovedStaysRemoved ==
    /\ \A i \in 1..Len(chunks) : chunks[i].document_id \notin removed
    /\ \A i \in 1..Len(results) : results[i].chunk.document_id \notin removed

\* C4 (as claimed): an add_document that raises leaves vectors, chunks and
\* documents as they were before the call.
C4_AddAllOrNothing ==
    [][(last'.op = "add" /\ last'.raised)
          => (index' = index /\ chunks' = chunks /\ documents' = documents)]_vars

\* C5 (as claimed): wherever save() stops, the files are untouched or hold
\* one store state: as many vectors in index.faiss as chunks in chunks.json,
\* position for position, and documents.json describing the same chunks.
C5_FilesWrittenTogether ==
    \/ ~Exists(fIndex) /\ ~Exists(fChunks) /\ ~Exists(fDocs)
    \/ /\ fIndex.kind = "data" /\ fChunks.kind = "data" /\ fDocs.kind = "data"
       /\ AlignedPair(ReadIndex(fIndex.data), LoadChunks(fChunks.data))
       /\ \A t \in fDocs.data :
             t[3] = Cardinality(PositionsOf(LoadChunks(fChunks.data), t[1]))

\* C6: a store constructed over the files of a save() that completed holds
\* the vectors, the chunks (in order) and the documents that were saved.
C6_RoundTrip ==
    (last.op = "restart" /\ saved.complete)
        => /\ index = saved.index
           /\ chunks = saved.chunks
           /\ documents = saved.documents

\* C6 witness: a store reloaded from a complete save of two documents' worth
\* of vectors and chunks.
C6_Witness ==
    /\ last.op = "restart" /\ saved.complete
    /\ Len(chunks) >= 3 /\ Len(index) = Len(chunks)
    /\ documents # EmptyDict

\* C7 (as claimed): remove_document(d) with d present, nothing failing
\* underneath it, returns, removes exactly the entry d from documents and
\* persists the result.
C7_RemoveCompletes ==
    [][\A d \in DocIds :
          (last'.op = "remove" /\ last'.doc = d /\ last'.present /\ ~last'.injected)
             => /\ ~last'.raised
                /\ documents' = DictDel(documents, d)
                /\ fDocs' = Data(DumpDocs(documents'))]_vars

\* C10: a search that returns gives [] on a store without vectors; otherwise
\* at most min(k, n) pairs, scores non-increasing, each pair a chunk of the
\* store with the inner product of the query vector and that chunk's vector.
C10_SearchResult ==
    (last.op = "search" /\ ~last.raised) =>
        LET n  == Len(index)
            qv == EmbedText(last.query)
        IN  /\ n = 0 => results = <<>>
            /\ Len(results) <= Min(last.k, n)
            /\ \A i \in 1..(Len(results) - 1) : results[i].score >= results[i + 1].score
            /\ \A i \in 1..Len(results) :
                  \E p \in 1..Min(n, Len(chunks)) :
                     /\ results[i].chunk = chunks[p]
                     /\ results[i].score = Dot(qv, index[p])

\* C10 witness: a search narrower than the store returned k pairs with
\* different scores.
C10_Witness ==
    /\ last.op = "search" /\ ~last.raised
    /\ last.k < Len(index)
    /\ Len(results) = last.k
    /\ results[1].score > results[2].score

\* C8: while a request stands anywhere inside search, no other request
\* stands inside add_document or remove_document, the store holds as many
\* vectors as chunks, and its vectors, chunks and documents are those search
\* found on entry: search reads the store as some mutation left it whole,
\* never a partly appended or partly rebuilt one.
C8_SearchSeesWholeState ==
    \A r \in Reqs :
        pc[r] \in SearchPcs =>
            /\ \A o \in Reqs \ {r} : pc[o] \notin MutationPcs
            /\ Len(index) = Len(chunks)
            /\ <<index, chunks, documents>> = loc[r].entry

\* C8 happens: a search is at the point of reading chunks for its hits while
\* an upload is in flight, on a store that holds vectors.
C8_Witness ==
    \E r, o \in Reqs :
        /\ pc[r] = "s_collect" /\ loc[r].hits # <<>>
        /\ pc[o] = "u_await"

Mutator(r) == pc[r] = "done" /\ loc[r].kind \in {"upload", "delete"}

\* C9: at most one request stands inside add_document or remove_document;
\* whenever no call is under way the store, files included, is the one
\* produced by running the finished calls in one piece each, one after
\* another in the order they finished; and each finished call raised exactly
\* if it raised in that serial run.
C9_SingleWriter ==
    /\ \A r, o \in Reqs : (pc[r] \in MutationPcs /\ pc[o] \in MutationPcs) => r = o
    /\ (\A r \in Reqs : pc[r] \notin MutationPcs) => Store = serial
    /\ \A r \in Reqs : Mutator(r) => loc[r].raised = loc[r].alone

\* C9 happens: two uploads were in flight together and both have finished
\* without error, the one that arrived later having gone first: its chunks
\* stand before the other's.
C9_Witness ==
    \E r, o \in Reqs :
        /\ r # o /\ Mutator(r) /\ Mutator(o)
        /\ loc[r].kind = "upload" /\ loc[o].kind = "upload"
        /\ ~loc[r].raised /\ ~loc[o].raised
        /\ loc[r].doc < loc[o].doc
        /\ chunks # <<>> /\ chunks[1].document_id = loc[o].doc
        /\ Len(index) = Len(chunks)

\* The candidate a citation was built from stands at position i.
CitesCandidate(citation, cs, i) ==
    /\ citation.document_name = cs[i].chunk.document_name
    /\ citation.page_number = cs[i].chunk.page_number
    /\ citation.relevance_score = cs[i].score

\* The source number of a reference, 1 when the reference names none.
SourceNumberOf(ref) == IF ref = <<>> THEN 1 ELSE ref[1]

Survives(ref) == SourceNumberOf(ref) - 1 >= 0 /\ SourceNumberOf(ref) - 1 < Len(ans.chunks)

\* C11: in every assembled answer over N candidates, with `kept` the
\* generator's references whose source_number - 1 is in [0, N), in order: if
\* kept is non-empty the citations are those of kept, one per reference, in
\* order; if it is empty they are the first min(3, N) candidates in rank order.
C11_CitationAssembly ==
    ans.stage = "answered" =>
        LET cs        == ans.chunks
            N         == Len(cs)
            refs      == IF ans.result.citations = <<>> THEN <<>>
                         ELSE ans.result.citations[1]
            kept      == SelectSeq(refs, Survives)
            citations == ans.response.citations
        IN  IF kept # <<>>
            THEN /\ Len(citations) = Len(kept)
                 /\ \A i \in 1..Len(kept) :
                       CitesCandidate(citations[i], cs, SourceNumberOf(kept[i]))
            ELSE /\ Len(citations) = (IF N < 3 THEN N ELSE 3)
                 /\ \A i \in 1..Len(citations) : CitesCandidate(citations[i], cs, i)

\* C11 happens: four candidates, two references both out of bounds, and the
\* answer cites the first three candidates.
C11_Witness ==
    /\ ans.stage = "answered"
    /\ Len(ans.chunks) = 4
    /\ ans.result.citations = << <<<<0>>, <<5>>>> >>
    /\ Len(ans.response.citations) = 3
    /\ ans.response.citations[3].page_number = 3

\* C12: every generator output that parses is answered, and the answer's
\* confidence is in [0, 1]: the generator's value when that is in [0, 1], 0
\* when it is below, 1 when it is above (0.5 when the generator gave none).
C12_ConfidenceClamped ==
    (ans.stage # "asked" /\ ans.result.parses) =>
        /\ ans.stage = "answered"
        /\ ans.response.confidence >= 0
        /\ ans.response.confidence <= CONFIDENCE_ONE
        /\ LET c == IF ans.result.confidence = <<>> THEN DEFAULT_CONFIDENCE
                    ELSE ans.result.confidence[1]
           IN  ans.response.confidence =
                  (IF c < 0 THEN 0 ELSE IF c > CONFIDENCE_ONE THEN CONFIDENCE_ONE ELSE c)

\* C12 happens: the generator said -3 and the answer carries 0.
C12_Witness ==
    /\ ans.stage = "answered"
    /\ ans.result.confidence = <<-30>>
    /\ ans.response.confidence = 0

\* C13 (as claimed): every citation's excerpt has at most 200 characters; it
\* is the candidate's text when that has at most 200, and ends with the
\* ellipsis when it has more.
C13_ExcerptAtMost200 ==
    ans.stage = "answered" =>
        \A i \in 1..Len(ans.response.citations) :
            LET citation == ans.response.citations[i]
                text     == ans.chunks[citation.page_number].chunk.text
                excerpt  == citation.text_excerpt
            IN  /\ Len(excerpt) <= 200
                /\ Len(text) <= 200 => excerpt = text
                /\ Len(text) > 200 =>
                      SubSeq(excerpt, Len(excerpt) - 2, Len(excerpt)) = <<".", ".", ".">>

\* The upload got as far as process_pdf's returning.
Chunked == ing.stage = "responded" /\ ing.fault # "process_pdf"

\* The positions, in the chunks process_pdf returned, of page j's chunks.
OfPage(j) == {i \in 1..Len(ing.chunks) : ing.chunks[i].page_number = j}

\* C14 (as claimed): of a page whose cleaned text is longer than chunk_size,
\* every chunk has at most chunk_size characters, unless it is one sentence
\* of the page that is itself longer than chunk_size.
C14_ChunksWithinSize ==
    Chunked =>
        \A j \in 1..Len(ing.pages) :
            LET text == CleanText(ing.pages[j])
                sentences == SplitIntoSentences(text)
            IN  Len(text) > chunk_size =>
                   \A i \in OfPage(j) :
                      \/ Len(ing.chunks[i].text) <= chunk_size
                      \/ \E k \in 1..Len(sentences) :
                            /\ sentences[k] = ing.chunks[i].text
                            /\ Len(sentences[k]) > chunk_size

\* C15: a page whose cleaned text is non-empty and no longer than chunk_size
\* has exactly one chunk; its text is the cleaned text and its chunk_index is
\* the start index supplied, the number of chunks of the pages before it.
C15_ShortPageOneChunk ==
    Chunked =>
        \A j \in 1..Len(ing.pages) :
            LET text == CleanText(ing.pages[j])
            IN  (text # <<>> /\ Len(text) <= chunk_size) =>
                   /\ Cardinality(OfPage(j)) = 1
                   /\ \A i \in OfPage(j) :
                         /\ ing.chunks[i].text = text
                         /\ ing.chunks[i].chunk_index =
                               Cardinality(UNION {OfPage(h) : h \in 1..(j - 1)})

\* C15 happens: a short page after a page of several chunks; its one chunk
\* carries the count of the chunks before it.
C15_Witness ==
    /\ Chunked
    /\ \E j \in 2..Len(ing.pages) :
          /\ CleanText(ing.pages[j]) = Word(2)
          /\ \E i \in OfPage(j) : ing.chunks[i].chunk_index >= 2

\* C16 (as claimed): a page whose cleaned text is empty has no chunk, and no
\* chunk process_pdf returns, and none the store holds, has the empty text.
C16_NoEmptyChunk ==
    Chunked =>
        /\ \A j \in 1..Len(ing.pages) : CleanText(ing.pages[j]) = <<>> => OfPage(j) = {}
        /\ \A i \in 1..Len(ing.chunks) : ing.chunks[i].text # <<>>
        /\ \A i \in 1..Len(chunks) : chunks[i].text # <<>>

\* C17: the chunks process_pdf returns carry chunk_index 0, 1, ..., n-1 in
\* list order, so each page's chunks count on from the page before, with no
\* gap, repeat or reset, whatever pages were skipped; pages never go back.
C17_ChunkIndexContinuity ==
    Chunked =>
        /\ \A i \in 1..Len(ing.chunks) : ing.chunks[i].chunk_index = i - 1
        /\ \A i \in 1..(Len(ing.chunks) - 1) :
              ing.chunks[i].page_number <= ing.chunks[i + 1].page_number

\* C17 happens: a PDF whose first page is skipped, with chunks on two later
\* pages, the last page's chunks counting on from the second's.
C17_Witness ==
    /\ Chunked
    /\ Len(ing.pages) = 3 /\ IsBlank(ing.pages[1])
    /\ Cardinality(OfPage(2)) >= 2 /\ Cardinality(OfPage(3)) >= 2
    /\ ing.chunks[Len(ing.chunks)].chunk_index = Len(ing.chunks) - 1

\* What upload_document answers when process_pdf or the embedding call raises.
FailureStatuses ==
    {upload_document(NoStore, 1, <<Word(2)>>, fault).status :
        fault \in {"process_pdf", "embed"}}

\* C20 (as claimed): an upload whose PDF gives no chunks, nothing else
\* failing, is answered with an error that is none of those answered when
\* process_pdf or the embedding call raises.
C20_EmptyIsDistinct ==
    (Chunked /\ ing.fault = "none" /\ ing.chunks = <<>>) =>
        /\ ing.status # 200
        /\ ing.status \notin FailureStatuses

\* C18: a query with no document in the store, or whose retrieval returns no
\* candidate, fails without generate_answer being called (400 and 404 when
\* nothing raised); generate_answer is called only on a non-empty candidate
\* list, the one the retrieval returned.
C18_QueryNeedsCandidates ==
    last.op = "query" =>
        /\ document_count(Store) = 0 => (last.status = 400 /\ ~last.generated)
        /\ results = <<>> => (last.status \in {400, 404, 500} /\ ~last.generated)
        /\ (document_count(Store) > 0 /\ ~last.injected) =>
              /\ results = search(Store, last.query, top_k_rerank, "none").results
              /\ results = <<>> => last.status = 404
        /\ last.generated => (results # <<>> /\ document_count(Store) > 0)

\* C18 happens: a query on a store that has a document and whose retrieval
\* returned no candidate was answered 404.
C18_Witness ==
    /\ last.op = "query" /\ last.status = 404 /\ ~last.generated
    /\ document_count(Store) > 0 /\ results = <<>>

\* C19: a delete request for an id the store does not know reports 404 and
\* changes nothing, and remove_document called with such an id returns
\* without raising, the index, chunks, documents and files as they were.
C19_UnknownDeleteChangesNothing ==
    [][ /\ (last'.op = "delete" /\ ~last'.present) =>
              (last'.status = 404 /\ Store' = Store)
        /\ (last'.op = "remove" /\ ~last'.present) =>
              (~last'.raised /\ Store' = Store) ]_vars

\* C19 happens: a delete request for an unknown id was answered 404 by a
\* store that holds a document, with its files written.
C19_Witness ==
    /\ last.op = "delete" /\ ~last.present /\ last.status = 404
    /\ chunks # <<>> /\ document_count(Store) > 0
    /\ Exists(fIndex) /\ Exists(fChunks) /\ Exists(fDocs)

\* C21 (as claimed): a search on a store whose index holds another number of
\* vectors than chunks holds entries ends in a failure and returns no result
\* list: no pair is returned, no hit dropped in silence.
C21_MisalignedSearchAborts ==
    (last.op = "search" /\ Len(index) # Len(chunks)) =>
        (last.raised /\ results = <<>>)

\* s with the elements at the positions in gone left out, the rest in order.
Without(s, gone) ==
    LET RECURSIVE From(_)
        From(i) == IF i > Len(s) THEN <<>>
                   ELSE IF i \in gone THEN From(i + 1)
                   ELSE <<s[i]>> \o From(i + 1)
    IN  From(1)

C25_ChunksOwned ==
    \A i \in 1..Len(chunks) : chunks[i].document_id \in DOMAIN documents

\* text.split() of a text whose words are parted by single spaces
Words(text) ==
    LET RECURSIVE Split(_, _)
        Split(t, word) ==
            IF t = <<>> THEN (IF word = <<>> THEN <<>> ELSE <<word>>)
            ELSE IF Head(t) = " "
                 THEN (IF word = <<>> THEN <<>> ELSE <<word>>) \o Split(Tail(t), <<>>)
                 ELSE Split(Tail(t), word \o <<Head(t)>>)
    IN  Split(text, <<>>)

\* The last min(n, all) elements of s.
LastOf(s, n) == SubSeq(s, Len(s) - Min(n, Len(s)) + 1, Len(s))

IsPrefix(p, t) == Len(p) <= Len(t) /\ SubSeq(t, 1, Len(p)) = p

\* C23 (as claimed): a chunk that follows another of its page starts with
\* the last min(10, all) words of that flushed chunk, then the sentence that
\* did not fit.
C23_OverlapLastWords ==
    Chunked =>
        \A i \in 1..(Len(ing.chunks) - 1) :
            ing.chunks[i].page_number = ing.chunks[i + 1].page_number =>
                LET overlap == Join(LastOf(Words(ing.chunks[i].text), OVERLAP_WORDS))
                    sentences == SplitIntoSentences(
                                    CleanText(ing.pages[ing.chunks[i].page_number]))
                IN  \E k \in 1..Len(sentences) :
                       IsPrefix(overlap \o <<" ">> \o sentences[k],
                                ing.chunks[i + 1].text)

\* The vector embed_texts owes the text t.
VectorOf(t) ==
    IF SanitizeText(t) = <<>> THEN ZeroVector
    ELSE Normalize(ProviderEmbedding(SanitizeText(t)))

\* vectors holds one vector per text, vector i that of text i.
AlignedWith(vectors, texts) ==
    /\ Len(vectors) = Len(texts)
    /\ \A i \in 1..Len(texts) : vectors[i] = VectorOf(texts[i])

RECURSIVE Flat(_)
Flat(batches) == IF batches = <<>> THEN <<>> ELSE Head(batches) \o Flat(Tail(batches))

\* C22 (as claimed): embed_texts returns one vector per text, vector i that of
\* text i, the zero vector for a text empty once sanitized; what it sends to
\* the provider is the other texts, in order, in batches of at most
\* BATCH_SIZE, no empty text among them.
C22_EmbedTextsAligned ==
    emb.stage = "embedded" =>
        /\ AlignedWith(emb.backend, emb.texts)
        /\ AlignedWith(emb.serverless, emb.texts)
        /\ \A b \in 1..Len(emb.sent) :
              Len(emb.sent[b]) \in 1..BATCH_SIZE /\ <<>> \notin {emb.sent[b][j] : j \in 1..Len(emb.sent[b])}
        /\ Flat(emb.sent) =
              SelectSeq([i \in 1..Len(emb.texts) |-> SanitizeText(emb.texts[i])],
                        LAMBDA t : t # <<>>)

\* C26 (as claimed): when an upload or a delete request has finished, well
\* or with an error, uploads/<d>.pdf exists exactly for the keys d of
\* documents.
C26_FilesMatchDocuments ==
    last.op \in {"upload", "delete"} => uploads = DOMAIN documents

====
